---------------------------- MODULE Spec2Model ----------------------------
(***************************************************************************)
(* Model of the triage-wizard backend (backend-rust): the HTTP handlers of *)
(* main.rs that route a request to a provider, the five CLI entry points   *)
(* of claude_cli.rs, the subprocess runner run_claude_cli and its          *)
(* structured-output extraction.                                           *)
(*                                                                         *)
(* Text is a sequence of tokens (punctuation, string literal, scalar       *)
(* literal, blank, newline, non-JSON text, invalid byte); JSON documents   *)
(* are parsed from tokens by a recursive-descent parser, and the serde     *)
(* decoding of the envelope structs works on the parsed tree.              *)
(***************************************************************************)
EXTENDS Integers, Sequences, FiniteSets, TLC

VARIABLES
    state,        \* AppState: claude_mode and the presence of the API keys
    request,      \* the request being handled (endpoint, provider, prompt, schema)
    pc,           \* position of the handler task
    child,        \* the spawned agent process
    stdin_pipe,   \* the pipe that carries the prompt to the agent
    stdout,       \* bytes the agent wrote to its standard output
    stderr,       \* bytes the agent wrote to its standard error
    cli_result,   \* what run_claude_cli / the CLI entry point returned
    response,     \* what the handler answered
    calls,        \* how often spawn, wait and extraction ran, and results produced
    other,        \* the second handler task in flight: the same fields, of its own
    plan          \* what a scripted agent still has to do (empty: any agent)

vars == <<state, request, pc, child, stdin_pipe, stdout, stderr,
          cli_result, response, calls, other, plan>>

-----------------------------------------------------------------------------
(* Bounds *)

MaxChunks == 3      \* chunks the agent writes to stdout in the extraction runs
MaxRunChunks == 1   \* chunks the agent writes to stdout in the full runs
MaxPrompt == 2      \* largest prompt, in pipe blocks
PipeCap == 1        \* capacity of an OS pipe, in blocks / chunks

-----------------------------------------------------------------------------
(* Tokens of a text *)

Tok(k, v) == [k |-> k, v |-> v]

LBrace == Tok("p", "{")
RBrace == Tok("p", "}")
LBrack == Tok("p", "[")
RBrack == Tok("p", "]")
Colon  == Tok("p", ":")
Comma  == Tok("p", ",")
SP     == Tok("w", " ")
NL     == Tok("n", "\n")
StrTok(s) == Tok("s", s)
LitTok(s) == Tok("l", s)
Junk(s)   == Tok("x", s)
BadByte   == Tok("b", "0xFF")
Replacement == Tok("x", "U+FFFD")

(* String::from_utf8_lossy: every invalid byte becomes U+FFFD. *)
from_utf8_lossy(bytes) ==
    [i \in 1..Len(bytes) |-> IF bytes[i].k = "b" THEN Replacement ELSE bytes[i]]

-----------------------------------------------------------------------------
(* JSON syntax trees: what the parser produces.  An object keeps its       *)
(* members in source order (duplicates included).                          *)

TNode(t, s, c) == [t |-> t, s |-> s, c |-> c]
TNull    == TNode("null", "null", <<>>)
TBool(b) == TNode("bool", IF b THEN "true" ELSE "false", <<>>)
TNum(n)  == TNode("num", n, <<>>)
TStr(s)  == TNode("str", s, <<>>)
TArr(es) == TNode("arr", "", es)
TObj(ms) == TNode("obj", "", ms)
Member(k, v) == [k |-> k, v |-> v]

(* serde_json::Value *)
Val(t, s, o, a) == [t |-> t, s |-> s, o |-> o, a |-> a]
VNull    == Val("null", "null", <<>>, <<>>)
VBool(b) == Val("bool", IF b THEN "true" ELSE "false", <<>>, <<>>)
VNum(n)  == Val("num", n, <<>>, <<>>)
VStr(s)  == Val("str", s, <<>>, <<>>)
VArr(es) == Val("arr", "", <<>>, es)
VObj(f)  == Val("obj", "", f, <<>>)

MemberKeys(ms) == {ms[i].k : i \in 1..Len(ms)}

(* serde_json's Map insert: a later duplicate key replaces the earlier. *)
LastIndexOf(ms, key) ==
    CHOOSE i \in 1..Len(ms) :
        /\ ms[i].k = key
        /\ \A j \in (i+1)..Len(ms) : ms[j].k # key

RECURSIVE ToValue(_)
ToValue(tree) ==
    CASE tree.t = "obj" ->
            VObj([key \in MemberKeys(tree.c) |->
                     ToValue(tree.c[LastIndexOf(tree.c, key)].v)])
      [] tree.t = "arr" ->
            VArr([i \in 1..Len(tree.c) |-> ToValue(tree.c[i])])
      [] OTHER -> Val(tree.t, tree.s, <<>>, <<>>)

-----------------------------------------------------------------------------
(* Writing JSON text: the compact form the agent prints on one line, and   *)
(* the indented form that spreads one document over several lines.         *)

RECURSIVE Render(_, _)
RECURSIVE RenderMembers(_, _, _)
RECURSIVE RenderElems(_, _, _)

Render(tree, pretty) ==
    CASE tree.t = "obj" ->
            IF Len(tree.c) = 0 THEN <<LBrace, RBrace>>
            ELSE <<LBrace>> \o (IF pretty THEN <<NL>> ELSE <<>>)
                 \o RenderMembers(tree.c, 1, pretty)
                 \o <<RBrace>>
      [] tree.t = "arr" ->
            IF Len(tree.c) = 0 THEN <<LBrack, RBrack>>
            ELSE <<LBrack>> \o RenderElems(tree.c, 1, pretty) \o <<RBrack>>
      [] tree.t = "str" -> <<StrTok(tree.s)>>
      [] OTHER -> <<LitTok(tree.s)>>

RenderMembers(ms, i, pretty) ==
    IF i > Len(ms) THEN <<>>
    ELSE (IF pretty THEN <<SP>> ELSE <<>>)
         \o <<StrTok(ms[i].k), Colon>> \o Render(ms[i].v, FALSE)
         \o (IF i < Len(ms) THEN <<Comma>> ELSE <<>>)
         \o (IF pretty THEN <<NL>> ELSE <<>>)
         \o RenderMembers(ms, i + 1, pretty)

RenderElems(es, i, pretty) ==
    IF i > Len(es) THEN <<>>
    ELSE Render(es[i], FALSE)
         \o (IF i < Len(es) THEN <<Comma>> ELSE <<>>)
         \o RenderElems(es, i + 1, pretty)

-----------------------------------------------------------------------------
(* serde_json::from_str: a recursive-descent parser over the tokens.       *)
(* Blanks and newlines are JSON whitespace; anything left after the value  *)
(* except whitespace is an error (trailing characters).                    *)

IsWs(tok) == tok.k \in {"w", "n"}

RECURSIVE SkipWs(_, _)
SkipWs(toks, i) ==
    IF i <= Len(toks) /\ IsWs(toks[i]) THEN SkipWs(toks, i + 1) ELSE i

ParseFail == [ok |-> FALSE, v |-> TNull, i |-> 0]
ParseOk(v, i) == [ok |-> TRUE, v |-> v, i |-> i]

IsTok(toks, i, tok) == i <= Len(toks) /\ toks[i] = tok

RECURSIVE ParseValue(_, _)
RECURSIVE ParseMembers(_, _, _)
RECURSIVE ParseElems(_, _, _)

ParseValue(toks, i0) ==
    LET i == SkipWs(toks, i0) IN
    IF i > Len(toks) THEN ParseFail
    ELSE CASE toks[i].k = "s" -> ParseOk(TStr(toks[i].v), i + 1)
           [] toks[i].k = "l" ->
                ParseOk(CASE toks[i].v = "null" -> TNull
                          [] toks[i].v = "true" -> TBool(TRUE)
                          [] toks[i].v = "false" -> TBool(FALSE)
                          [] OTHER -> TNum(toks[i].v),
                        i + 1)
           [] toks[i] = LBrace ->
                LET j == SkipWs(toks, i + 1) IN
                IF IsTok(toks, j, RBrace) THEN ParseOk(TObj(<<>>), j + 1)
                ELSE ParseMembers(toks, j, <<>>)
           [] toks[i] = LBrack ->
                LET j == SkipWs(toks, i + 1) IN
                IF IsTok(toks, j, RBrack) THEN ParseOk(TArr(<<>>), j + 1)
                ELSE ParseElems(toks, j, <<>>)
           [] OTHER -> ParseFail

(* toks[i0..] is `"key" : value` followed by `,` and more members or `}` *)
ParseMembers(toks, i0, acc) ==
    LET i == SkipWs(toks, i0) IN
    IF i > Len(toks) \/ toks[i].k # "s" THEN ParseFail
    ELSE LET c == SkipWs(toks, i + 1) IN
         IF ~IsTok(toks, c, Colon) THEN ParseFail
         ELSE LET r == ParseValue(toks, c + 1) IN
              IF ~r.ok THEN ParseFail
              ELSE LET n == SkipWs(toks, r.i)
                       ms == Append(acc, Member(toks[i].v, r.v)) IN
                   IF IsTok(toks, n, Comma) THEN ParseMembers(toks, n + 1, ms)
                   ELSE IF IsTok(toks, n, RBrace) THEN ParseOk(TObj(ms), n + 1)
                   ELSE ParseFail

ParseElems(toks, i0, acc) ==
    LET r == ParseValue(toks, i0) IN
    IF ~r.ok THEN ParseFail
    ELSE LET n == SkipWs(toks, r.i)
             es == Append(acc, r.v) IN
         IF IsTok(toks, n, Comma) THEN ParseElems(toks, n + 1, es)
         ELSE IF IsTok(toks, n, RBrack) THEN ParseOk(TArr(es), n + 1)
         ELSE ParseFail

(* from_str taking the first document of the text and ignoring what follows *)
from_str_first(toks) == ParseValue(toks, 1)

(* serde_json::from_str: one value, then nothing but whitespace *)
from_str(toks) ==
    LET r == ParseValue(toks, 1) IN
    IF r.ok /\ SkipWs(toks, r.i) > Len(toks) THEN r ELSE ParseFail

-----------------------------------------------------------------------------
(* serde decoding of the envelope structs ClaudeCliOutput and ClaudeResult *)
(* (derive(Deserialize), no deny_unknown_fields): a JSON object whose      *)
(* known fields have the declared types, unknown fields ignored, a known   *)
(* field given twice is an error; or a JSON array listing exactly the      *)
(* fields in declaration order.                                            *)

NoneStr == [some |-> FALSE, v |-> ""]
SomeStr(s) == [some |-> TRUE, v |-> s]
NoneVal == [some |-> FALSE, v |-> VNull]
SomeVal(v) == [some |-> TRUE, v |-> v]

CountKey(ms, key) == Cardinality({i \in 1..Len(ms) : ms[i].k = key})
HasKey(ms, key) == key \in MemberKeys(ms)
FieldOf(ms, key) == ms[LastIndexOf(ms, key)].v

(* Option<String>: null or a string *)
IsOptString(tree) == tree.t \in {"str", "null"}
OptStringOf(tree) == IF tree.t = "str" THEN SomeStr(tree.s) ELSE NoneStr

(* Option<serde_json::Value>: null is None, every other value is Some *)
OptValueOf(tree) == IF tree.t = "null" THEN NoneVal ELSE SomeVal(ToValue(tree))

ClaudeResultFail == [ok |-> FALSE, structured_output |-> NoneVal]

ClaudeResult(tree) ==
    CASE tree.t = "obj" ->
            LET ms == tree.c IN
            IF \/ CountKey(ms, "type") > 1
               \/ CountKey(ms, "structured_output") > 1
               \/ (HasKey(ms, "type") /\ ~IsOptString(FieldOf(ms, "type")))
            THEN ClaudeResultFail
            ELSE [ok |-> TRUE,
                  structured_output |->
                      IF HasKey(ms, "structured_output")
                      THEN OptValueOf(FieldOf(ms, "structured_output"))
                      ELSE NoneVal]
      [] tree.t = "arr" ->
            IF Len(tree.c) # 2 \/ ~IsOptString(tree.c[1]) THEN ClaudeResultFail
            ELSE [ok |-> TRUE, structured_output |-> OptValueOf(tree.c[2])]
      [] OTHER -> ClaudeResultFail

NoneResult == [some |-> FALSE, structured_output |-> NoneVal]

ClaudeCliOutputFail ==
    [ok |-> FALSE, output_type |-> NoneStr, result |-> NoneResult]

(* Option<ClaudeResult>: null is None, otherwise the struct must decode *)
OptResultOk(tree) == tree.t = "null" \/ ClaudeResult(tree).ok
OptResultOf(tree) ==
    IF tree.t = "null" THEN NoneResult
    ELSE [some |-> TRUE, structured_output |-> ClaudeResult(tree).structured_output]

ClaudeCliOutput(tree) ==
    CASE tree.t = "obj" ->
            LET ms == tree.c IN
            IF \/ \E key \in {"type", "subtype", "result"} : CountKey(ms, key) > 1
               \/ (HasKey(ms, "type") /\ ~IsOptString(FieldOf(ms, "type")))
               \/ (HasKey(ms, "subtype") /\ ~IsOptString(FieldOf(ms, "subtype")))
               \/ (HasKey(ms, "result") /\ ~OptResultOk(FieldOf(ms, "result")))
            THEN ClaudeCliOutputFail
            ELSE [ok |-> TRUE,
                  output_type |-> IF HasKey(ms, "type")
                                  THEN OptStringOf(FieldOf(ms, "type"))
                                  ELSE NoneStr,
                  result |-> IF HasKey(ms, "result")
                             THEN OptResultOf(FieldOf(ms, "result"))
                             ELSE NoneResult]
      [] tree.t = "arr" ->
            IF \/ Len(tree.c) # 3
               \/ ~IsOptString(tree.c[1])
               \/ ~IsOptString(tree.c[2])
               \/ ~OptResultOk(tree.c[3])
            THEN ClaudeCliOutputFail
            ELSE [ok |-> TRUE,
                  output_type |-> OptStringOf(tree.c[1]),
                  result |-> OptResultOf(tree.c[3])]
      [] OTHER -> ClaudeCliOutputFail

(* serde_json::from_str::<ClaudeCliOutput>(line) *)
from_str_ClaudeCliOutput(line) ==
    LET r == from_str(line) IN
    IF r.ok THEN ClaudeCliOutput(r.v) ELSE ClaudeCliOutputFail

-----------------------------------------------------------------------------
(* Results: Result<serde_json::Value, ErrorResponse>.  `via` and `line`    *)
(* record which step of the extraction produced the value.                 *)

NoDetails == [some |-> FALSE, msg |-> "", text |-> <<>>]
Details(msg, text) == [some |-> TRUE, msg |-> msg, text |-> text]

Ok(value, via, line) ==
    [ok |-> TRUE, value |-> value, error |-> "", details |-> NoDetails,
     via |-> via, line |-> line]
Err(error, details) ==
    [ok |-> FALSE, value |-> VNull, error |-> error, details |-> details,
     via |-> "", line |-> 0]
ErrorResponse(error, details) == Err(error, details)
NoResult == [ok |-> FALSE, value |-> VNull, error |-> "", details |-> NoDetails,
             via |-> "none", line |-> 0]

-----------------------------------------------------------------------------
(* The extraction part of run_claude_cli *)

(* str::lines(): split at newlines; a final newline ends the last line.    *)
(* LineEnds are the positions that end a line: every newline, and the end  *)
(* of the text when the text does not end with a newline.                  *)
LineEnds(text) ==
    {i \in 1..Len(text) : text[i].k = "n"}
    \cup (IF Len(text) > 0 /\ text[Len(text)].k # "n" THEN {Len(text) + 1} ELSE {})

lines(text) ==
    LET ends == LineEnds(text)
        before(e) == {j \in ends : j < e}
        first(e) == IF before(e) = {} THEN 1
                    ELSE 1 + CHOOSE j \in before(e) : \A h \in before(e) : h <= j
    IN [k \in 1..Cardinality(ends) |->
          LET e == CHOOSE x \in ends : Cardinality(before(x)) = k - 1
          IN SubSeq(text, first(e), e - 1)]

(* line.trim().is_empty() *)
IsBlankLine(line) == \A i \in 1..Len(line) : line[i].k = "w"

(* LineMatch without the test of the type tag *)
LineMatchAnyType(line) ==
    IF IsBlankLine(line) THEN NoneVal
    ELSE LET parsed == from_str_ClaudeCliOutput(line) IN
         IF parsed.ok /\ parsed.result.some
         THEN parsed.result.structured_output
         ELSE NoneVal

(* what one iteration of the loop finds in a line *)
LineMatch(line) ==
    IF IsBlankLine(line) THEN NoneVal
    ELSE LET parsed == from_str_ClaudeCliOutput(line) IN
         IF /\ parsed.ok
            /\ parsed.output_type = SomeStr("result")
            /\ parsed.result.some
         THEN parsed.result.structured_output
         ELSE NoneVal

(* ScanLines keeping the last matching line instead of the first *)
RECURSIVE ScanLinesLast(_, _)
ScanLinesLast(ls, i) ==
    IF i > Len(ls) THEN NoResult
    ELSE LET rest == ScanLinesLast(ls, i + 1)
             m == IF IsBlankLine(ls[i]) THEN NoneVal
                  ELSE LET parsed == from_str_ClaudeCliOutput(ls[i]) IN
                       IF /\ parsed.ok
                          /\ parsed.output_type = SomeStr("result")
                          /\ parsed.result.some
                       THEN parsed.result.structured_output
                       ELSE NoneVal
         IN IF rest.ok THEN rest
            ELSE IF m.some THEN Ok(m.v, "scan", i)
            ELSE NoResult

(* for line in stdout.lines() { ... return Ok(structured) ... } *)
RECURSIVE ScanLines(_, _)
ScanLines(ls, i) ==
    IF i > Len(ls) THEN NoResult
    ELSE LET m == LineMatch(ls[i]) IN
         IF m.some THEN Ok(m.v, "scan", i)
         ELSE ScanLines(ls, i + 1)

(* MarkerKeys without final_response *)
MarkerKeysShort == {"ai_detected_str", "suggested_response_id"}

MarkerKeys == {"ai_detected_str", "final_response", "suggested_response_id"}

(* WholeOutput testing the marker keys before structured_output *)
WholeOutputMarkerFirst(text) ==
    LET r == from_str(text) IN
    IF r.ok /\ r.v.t = "obj"
    THEN LET json == ToValue(r.v) IN
         IF DOMAIN json.o \cap MarkerKeys # {}
         THEN Ok(json, "direct", 0)
         ELSE IF "structured_output" \in DOMAIN json.o
         THEN Ok(json.o["structured_output"], "whole", 0)
         ELSE NoResult
    ELSE NoResult

(* the fallbacks on the whole output *)
WholeOutput(text) ==
    LET r == from_str(text) IN
    IF r.ok /\ r.v.t = "obj"
    THEN LET json == ToValue(r.v) IN
         IF "structured_output" \in DOMAIN json.o
         THEN Ok(json.o["structured_output"], "whole", 0)
         ELSE IF DOMAIN json.o \cap MarkerKeys # {}
         THEN Ok(json, "direct", 0)
         ELSE NoResult
    ELSE NoResult

(* ParseOutput whose error carries only the first line of the output *)
ParseOutputFirstLine(text) ==
    LET scanned == ScanLines(lines(text), 1) IN
    IF scanned.ok THEN scanned
    ELSE LET whole == WholeOutput(text) IN
         IF whole.ok THEN whole
         ELSE Err("Failed to parse Claude CLI output",
                  Details("Output: ", IF lines(text) = <<>> THEN <<>>
                                      ELSE lines(text)[1]))

ParseOutput(text) ==
    LET scanned == ScanLines(lines(text), 1) IN
    IF scanned.ok THEN scanned
    ELSE LET whole == WholeOutput(text) IN
         IF whole.ok THEN whole
         ELSE Err("Failed to parse Claude CLI output", Details("Output: ", text))

-----------------------------------------------------------------------------
(* What the agent may print: records of its output format, one per line,   *)
(* and other text.                                                         *)

PayloadX == TObj(<<Member("x", TNum("1"))>>)
PayloadY == TObj(<<Member("y", TNum("2"))>>)

Envelope(type, result) ==
    TObj(<<Member("type", TStr(type)), Member("result", result)>>)
WithOutput(payload) == TObj(<<Member("structured_output", payload)>>)

Line(tree) == Render(tree, FALSE) \o <<NL>>

ResultLineX  == Line(Envelope("result", WithOutput(PayloadX)))
ResultLineY  == Line(Envelope("result", WithOutput(PayloadY)))
ResultNoOutput == Line(TObj(<<Member("type", TStr("result")),
                              Member("subtype", TStr("success")),
                              Member("result", TObj(<<>>))>>))
ResultNullOutput == Line(Envelope("result", WithOutput(TNull)))
SystemLine   == Line(Envelope("system", WithOutput(PayloadY)))
ResultText   == Line(TObj(<<Member("type", TStr("result")),
                            Member("result", TStr("done")),
                            Member("structured_output", PayloadX)>>))
ResultArray  == Line(TArr(<<TStr("result"), TNull,
                            TArr(<<TNull, PayloadY>>)>>))
WrappedMarker == Line(TObj(<<Member("final_response", TStr("ok")),
                             Member("structured_output", PayloadY)>>))
WrappedNull  == Line(WithOutput(TNull))
DirectLine   == Line(TObj(<<Member("final_response", TStr("ok")),
                            Member("used_canned_id", TStr("c1"))>>))
PrettyWrapped == Render(WithOutput(PayloadX), TRUE) \o <<NL>>
PrettyDirect == Render(TObj(<<Member("ai_detected_str", TBool(TRUE))>>), TRUE)
OtherLine    == Line(PayloadX)
JunkLine     == <<Junk("Thinking..."), NL>>
BlankLine    == <<SP, NL>>
BadLine      == <<BadByte, NL>>

Catalogue ==
    {ResultLineX, ResultLineY, ResultNoOutput, ResultNullOutput, SystemLine,
     ResultText, ResultArray, WrappedNull, WrappedMarker, DirectLine,
     PrettyWrapped, PrettyDirect, OtherLine, JunkLine, BlankLine, BadLine}

RunCatalogue == {ResultLineX, JunkLine}

ErrCatalogue == {<<Junk("Error: not logged in"), BadByte, NL>>}

RECURSIVE Flatten(_)
Flatten(chunks) ==
    IF chunks = <<>> THEN <<>> ELSE Head(chunks) \o Flatten(Tail(chunks))

-----------------------------------------------------------------------------
(* Answers the agent may give: the fields the five decoders read, with     *)
(* values of the right and of the wrong type.                              *)

MaxItems == 2       \* longest array in an answer

BoolKeys ==
    {"ai_detected_str", "ai_detected_test_attached", "crashstack_present",
     "fuzzing_testcase", "can_generate"}
StringKeys ==
    {"summary", "suggested_severity", "suggested_priority", "triage_reasoning",
     "suggested_canned_id", "draft_response", "suggested_response_id",
     "reasoning", "response_text", "refined_response", "html_content", "reason"}
ArrayKeys == {"suggested_actions", "used_canned_ids", "changes_made"}

(* the fields each decoder reads, in the order it reads them *)
FieldsOf(ep) ==
    CASE ep = "classify" ->
            <<"suggested_actions", "ai_detected_str", "ai_detected_test_attached",
              "crashstack_present", "fuzzing_testcase", "summary",
              "suggested_severity", "suggested_priority", "triage_reasoning",
              "suggested_canned_id", "draft_response">>
      [] ep = "suggest" -> <<"suggested_response_id", "draft_response", "reasoning">>
      [] ep = "generate" ->
            <<"suggested_actions", "used_canned_ids", "response_text", "reasoning">>
      [] ep = "refine" -> <<"changes_made", "refined_response">>
      [] OTHER -> <<"can_generate", "html_content", "reason">>

AnswerKeys == BoolKeys \cup StringKeys \cup ArrayKeys \cup {"unexpected"}

ActionItem == TObj(<<Member("action", TStr("close")), Member("reason", TStr("dup"))>>)

(* elements of an array: strings, action records, and malformed ones *)
Elements ==
    {TStr("c1"), TStr("c2"), TNum("1"), ActionItem,
     TObj(<<Member("action", TStr("needinfo"))>>),
     TObj(<<Member("action", TNum("1")), Member("reason", TStr("dup"))>>),
     TObj(<<Member("reason", TStr("dup"))>>)}

Arrays == {TArr(es) : es \in UNION {[1..n -> Elements] : n \in 0..MaxItems}}

Scalars ==
    {TNull, TBool(TRUE), TBool(FALSE), TNum("1"), TStr(""), TStr("text"),
     TObj(<<>>)}

FieldValues(key) ==
    Scalars \cup (IF key \in ArrayKeys THEN Arrays ELSE {TArr(<<TStr("c1")>>)})

WellFormed(key) ==
    CASE key \in BoolKeys -> TBool(TRUE)
      [] key = "suggested_actions" -> TArr(<<ActionItem>>)
      [] key \in ArrayKeys -> TArr(<<TStr("c1")>>)
      [] OTHER -> TStr("text")

(* the answer that has every field of the decoder, well formed *)
FullAnswer(ep) ==
    TObj([i \in 1..Len(FieldsOf(ep)) |->
             Member(FieldsOf(ep)[i], WellFormed(FieldsOf(ep)[i]))])

Patch(base, key, tree) ==
    IF key \in MemberKeys(base.c)
    THEN TObj([i \in 1..Len(base.c) |->
                 IF base.c[i].k = key THEN Member(key, tree) ELSE base.c[i]])
    ELSE TObj(Append(base.c, Member(key, tree)))

Without(base, key) == TObj(SelectSeq(base.c, LAMBDA m : m.k # key))

(* answers to a call of the entry point: no object, the empty and the full *)
(* object, and these with one field removed or replaced                    *)
Answers(ep) ==
    {TNull, TBool(TRUE), TNum("1"), TStr("text"), TArr(<<TStr("c1")>>),
     TObj(<<>>), FullAnswer(ep)}
    \cup {Without(FullAnswer(ep), key) : key \in AnswerKeys}
    \cup UNION {{Patch(base, key, tree) : tree \in FieldValues(key)} :
                   base \in {TObj(<<>>), FullAnswer(ep)}, key \in AnswerKeys}

(* what the agent prints for an answer: the result record of its output    *)
(* format, the answer under structured_output, or the answer alone         *)
Shapes == {"envelope", "wrapped", "bare"}
Printed(answer, shape) ==
    CASE shape = "envelope" -> Line(Envelope("result", WithOutput(answer)))
      [] shape = "wrapped" -> Line(WithOutput(answer))
      [] OTHER -> Line(answer)

-----------------------------------------------------------------------------
(* Requests and configuration *)

Endpoints == {"classify", "suggest", "generate", "refine", "testpage"}
Providers == {"claude", "gemini", "openai", "grok"}

NoneText == [some |-> FALSE, len |-> 0]
SomeText(n) == [some |-> TRUE, len |-> n]

(* Option<String> of the request: absent, empty, or a text of len blocks *)
Prompts == {NoneText} \cup {SomeText(n) : n \in 0..MaxPrompt}
Schemas == {NoneText, SomeText(0), SomeText(1)}

AppStates ==
    [claude_mode : {"cli", "api"}, anthropic_api_key : BOOLEAN,
     gemini_api_key : BOOLEAN, openai_api_key : BOOLEAN]

(* RefineRequest.current_response; the other requests have none *)
CurrentResponse(ep) == IF ep = "refine" THEN "draft" ELSE ""

NoRequest ==
    [endpoint |-> "none", provider |-> "none", prompt |-> NoneText,
     schema |-> NoneText, current_response |-> ""]

NoChild == [st |-> "none", stdin_open |-> FALSE, status |-> 0]
NoPipe == [written |-> 0, buffered |-> 0, open |-> FALSE]
NoCalls == [spawn |-> 0, wait |-> 0, extract |-> 0, results |-> 0]

-----------------------------------------------------------------------------
(* main.rs: provider routing of the five handlers.  The result is either   *)
(* the call of the CLI entry point or the error the handler answers.       *)

ToCli == [cli |-> TRUE, err |-> NoResult]
Reject(error, details) == [cli |-> FALSE, err |-> ErrorResponse(error, details)]

ClaudeApiStub ==
    Reject("Claude HTTP API mode not yet implemented - use CLI mode",
           Details("Set CLAUDE_BACKEND_MODE=cli", <<>>))

EndpointName(ep) ==
    CASE ep = "suggest" -> "suggest"
      [] ep = "generate" -> "generate"
      [] ep = "refine" -> "refine"
      [] OTHER -> "test page generation"

(* Route sending a Claude request without API key to the CLI in any mode *)
RouteKeylessToCli(ep, provider, st) ==
    IF provider = "claude" THEN
        IF st.claude_mode = "cli" \/ ~st.anthropic_api_key THEN ToCli
        ELSE ClaudeApiStub
    ELSE IF ep = "classify" THEN
        CASE provider = "gemini" ->
                IF st.gemini_api_key
                THEN Reject("Gemini backend proxy not yet implemented - use browser mode",
                            NoDetails)
                ELSE Reject("GEMINI_API_KEY not configured", NoDetails)
          [] provider = "openai" ->
                IF st.openai_api_key
                THEN Reject("OpenAI backend proxy not yet implemented", NoDetails)
                ELSE Reject("OPENAI_API_KEY not configured", NoDetails)
          [] OTHER -> Reject("Unknown provider: " \o provider, NoDetails)
    ELSE Reject("Only Claude provider supported for " \o EndpointName(ep), NoDetails)

Route(ep, provider, st) ==
    IF provider = "claude" THEN
        IF st.claude_mode = "cli" THEN ToCli
        ELSE IF st.anthropic_api_key THEN ClaudeApiStub
        ELSE IF ep \in {"classify", "suggest"}
             THEN Reject("ANTHROPIC_API_KEY not configured", NoDetails)
             ELSE Reject("Anthropic API key not configured",
                         Details("Set ANTHROPIC_API_KEY or use CLI mode", <<>>))
    ELSE IF ep = "classify" THEN
        CASE provider = "gemini" ->
                IF st.gemini_api_key
                THEN Reject("Gemini backend proxy not yet implemented - use browser mode",
                            NoDetails)
                ELSE Reject("GEMINI_API_KEY not configured", NoDetails)
          [] provider = "openai" ->
                IF st.openai_api_key
                THEN Reject("OpenAI backend proxy not yet implemented", NoDetails)
                ELSE Reject("OPENAI_API_KEY not configured", NoDetails)
          [] OTHER -> Reject("Unknown provider: " \o provider, NoDetails)
    ELSE Reject("Only Claude provider supported for " \o EndpointName(ep), NoDetails)

(* EntryCheck that requires the prompt only *)
EntryCheckPromptOnly(prompt, schema) ==
    IF ~prompt.some
    THEN Err("Missing prompt from frontend",
             Details("Prompts are centralized in frontend/src/prompts.js", <<>>))
    ELSE Ok(VNull, "entry", 0)

(* claude_cli.rs: the prologue shared by the five entry points *)
EntryCheck(prompt, schema) ==
    IF ~prompt.some
    THEN Err("Missing prompt from frontend",
             Details("Prompts are centralized in frontend/src/prompts.js", <<>>))
    ELSE IF ~schema.some
    THEN Err("Missing schema from frontend",
             Details("Schemas are centralized in frontend/src/prompts.js", <<>>))
    ELSE Ok(VNull, "entry", 0)

(* CheckOutput reporting a non-zero exit with the message of a failed spawn *)
CheckOutputAsSpawn(output) ==
    IF output.status # 0
    THEN Err("Failed to spawn claude CLI",
             Details("", from_utf8_lossy(output.stderr)))
    ELSE ParseOutput(from_utf8_lossy(output.stdout))

(* run_claude_cli after wait_with_output returned `output` *)
CheckOutput(output) ==
    IF output.status # 0
    THEN Err("Claude CLI execution failed",
             Details("", from_utf8_lossy(output.stderr)))
    ELSE ParseOutput(from_utf8_lossy(output.stdout))

-----------------------------------------------------------------------------
(* The handler's answer: Result<Json<...Response>, ErrorResponse> *)

Json(body) == [ok |-> TRUE, body |-> body, error |-> "", details |-> NoDetails]
Failed(err) ==
    [ok |-> FALSE, body |-> <<>>, error |-> err.error, details |-> err.details]
NoResponse == [ok |-> FALSE, body |-> <<>>, error |-> "", details |-> NoDetails]

(* Reading fields of the answer: result.get(key).and_then(as_...) *)
get(value, key) ==
    IF value.t = "obj" /\ key \in DOMAIN value.o
    THEN SomeVal(value.o[key]) ELSE NoneVal

as_bool(opt) ==
    IF opt.some /\ opt.v.t = "bool"
    THEN [some |-> TRUE, v |-> (opt.v.s = "true")]
    ELSE [some |-> FALSE, v |-> FALSE]

as_str(opt) == IF opt.some /\ opt.v.t = "str" THEN SomeStr(opt.v.s) ELSE NoneStr

as_array(opt) ==
    IF opt.some /\ opt.v.t = "arr"
    THEN [some |-> TRUE, v |-> opt.v.a] ELSE [some |-> FALSE, v |-> <<>>]

unwrap_or(opt, default) == IF opt.some THEN opt.v ELSE default

(* .filter(|s| !s.is_empty()) *)
NonEmpty(opt) == IF opt.some /\ opt.v # "" THEN opt ELSE NoneStr

BoolField(result, key) == unwrap_or(as_bool(get(result, key)), FALSE)
StrField(result, key) == unwrap_or(as_str(get(result, key)), "")
OptStrField(result, key) == as_str(get(result, key))
ArrayField(result, key) == unwrap_or(as_array(get(result, key)), <<>>)

HasAction(item) == as_str(get(item, "action")).some

(* Vec<TriageAction> of classify_bug *)
TriageActions(arr) ==
    LET kept == SelectSeq(arr, HasAction) IN
    [i \in 1..Len(kept) |->
        [action |-> as_str(get(kept[i], "action")).v,
         reason |-> StrField(kept[i], "reason")]]

(* Vec<SuggestedAction> of generate_response *)
SuggestedActions(arr) ==
    LET kept == SelectSeq(arr, HasAction) IN
    [i \in 1..Len(kept) |->
        [action |-> as_str(get(kept[i], "action")).v,
         reason |-> OptStrField(kept[i], "reason")]]

IsStr(item) == item.t = "str"

(* Strings giving up on the whole array at a malformed element *)
StringsOrNothing(arr) ==
    IF \A i \in 1..Len(arr) : arr[i].t = "str"
    THEN [i \in 1..Len(arr) |-> arr[i].s]
    ELSE <<>>

(* Vec<String>: used_canned_ids, changes_made *)
Strings(arr) ==
    LET kept == SelectSeq(arr, IsStr) IN [i \in 1..Len(kept) |-> kept[i].s]

ClassifyResponse(result) ==
    [ai_detected_str |-> BoolField(result, "ai_detected_str"),
     ai_detected_test_attached |-> BoolField(result, "ai_detected_test_attached"),
     crashstack_present |-> BoolField(result, "crashstack_present"),
     fuzzing_testcase |-> BoolField(result, "fuzzing_testcase"),
     summary |-> StrField(result, "summary"),
     suggested_severity |-> OptStrField(result, "suggested_severity"),
     suggested_priority |-> OptStrField(result, "suggested_priority"),
     suggested_actions |-> TriageActions(ArrayField(result, "suggested_actions")),
     triage_reasoning |-> OptStrField(result, "triage_reasoning"),
     suggested_canned_id |-> NonEmpty(OptStrField(result, "suggested_canned_id")),
     draft_response |-> NonEmpty(OptStrField(result, "draft_response")),
     notes |-> NoneVal]

SuggestResponse(result) ==
    [suggested_response_id |-> StrField(result, "suggested_response_id"),
     draft_response |-> StrField(result, "draft_response"),
     reasoning |-> OptStrField(result, "reasoning")]

GenerateResponse(result) ==
    [response_text |-> StrField(result, "response_text"),
     suggested_actions |-> SuggestedActions(ArrayField(result, "suggested_actions")),
     used_canned_ids |-> Strings(ArrayField(result, "used_canned_ids")),
     reasoning |-> StrField(result, "reasoning")]

(* RefineResponse whose refined_response defaults to the empty string *)
RefineResponseEmptyDefault(result, current_response) ==
    [refined_response |-> unwrap_or(as_str(get(result, "refined_response")), ""),
     changes_made |-> Strings(ArrayField(result, "changes_made"))]

RefineResponse(result, current_response) ==
    [refined_response |->
         unwrap_or(as_str(get(result, "refined_response")), current_response),
     changes_made |-> Strings(ArrayField(result, "changes_made"))]

TestPageResponse(result) ==
    [can_generate |-> BoolField(result, "can_generate"),
     html_content |-> StrField(result, "html_content"),
     reason |-> StrField(result, "reason")]

(* the part of an entry point after `run_claude_cli(...).await?` *)
Decode(req, result) ==
    CASE req.endpoint = "classify" -> ClassifyResponse(result)
      [] req.endpoint = "suggest" -> SuggestResponse(result)
      [] req.endpoint = "generate" -> GenerateResponse(result)
      [] req.endpoint = "refine" -> RefineResponse(result, req.current_response)
      [] OTHER -> TestPageResponse(result)

(* Respond failing on an answer that is not an object *)
RespondObjectsOnly(req, result) ==
    IF ~result.ok THEN Failed(result)
    ELSE IF result.value.t # "obj"
    THEN Failed(Err("Invalid answer", NoDetails))
    ELSE Json(Decode(req, result.value))

(* what the entry point returns for run_claude_cli's result *)
Respond(req, result) ==
    IF result.ok THEN Json(Decode(req, result.value)) ELSE Failed(result)

-----------------------------------------------------------------------------
(* The handler task *)

(* a handler task that has not received its request *)
NoTask ==
    [request |-> NoRequest, pc |-> "idle", child |-> NoChild,
     stdin_pipe |-> NoPipe, stdout |-> <<>>, stderr |-> <<>>,
     cli_result |-> NoResult, response |-> NoResponse, calls |-> NoCalls]

(* Finish that starts the request over after a failure *)
FinishRetry(req, result) ==
    /\ pc' = IF result.ok THEN "done" ELSE "idle"
    /\ cli_result' = result
    /\ response' = Respond(req, result)

(* the entry point returns and the handler answers *)
Finish(req, result) ==
    /\ pc' = "done"
    /\ cli_result' = result
    /\ response' = Respond(req, result)

(* A request arrives: the handler routes it, the entry point checks prompt *)
(* and schema, run_claude_cli builds the command and spawns the agent.     *)
(* Nothing of this awaits, so it is one step.                              *)
HandleRequest(ep, provider, prompt, schema, spawn_ok) ==
    /\ pc = "idle"
    /\ request' = [endpoint |-> ep, provider |-> provider,
                   prompt |-> prompt, schema |-> schema,
                   current_response |-> CurrentResponse(ep)]
    /\ LET routed == Route(ep, provider, state)
           checked == EntryCheck(prompt, schema)
       IN IF ~routed.cli THEN
              /\ pc' = "done"
              /\ response' = Failed(routed.err)
              /\ calls' = [calls EXCEPT !.results = @ + 1]
              /\ UNCHANGED <<child, stdin_pipe, cli_result>>
          ELSE IF ~checked.ok THEN
              /\ Finish(request', checked)
              /\ calls' = [calls EXCEPT !.results = @ + 1]
              /\ UNCHANGED <<child, stdin_pipe>>
          ELSE IF ~spawn_ok THEN
              /\ Finish(request', Err("Failed to spawn claude CLI",
                            Details("Ensure 'claude' is installed and in PATH. Error: ",
                                    <<Junk("No such file or directory")>>)))
              /\ calls' = [calls EXCEPT !.spawn = @ + 1, !.results = @ + 1]
              /\ UNCHANGED <<child, stdin_pipe>>
          ELSE
              /\ pc' = "write"
              /\ child' = [st |-> "running", stdin_open |-> TRUE, status |-> 0]
              /\ stdin_pipe' = [written |-> 0, buffered |-> 0, open |-> TRUE]
              /\ calls' = [calls EXCEPT !.spawn = @ + 1]
              /\ UNCHANGED <<cli_result, response>>
    /\ UNCHANGED <<state, stdout, stderr>>

(* WriteError reporting the exit failure with the agent's stderr *)
WriteErrorAsExit ==
    Err("Claude CLI execution failed",
        Details("", from_utf8_lossy(Flatten(stderr))))

(* the error of a failed write_all: the agent's end of the pipe is closed *)
WriteError ==
    Err("Failed to write to claude CLI",
        Details("", <<Junk("Broken pipe (os error 32)")>>))

(* WriteStdin into a pipe that takes any amount of data *)
WriteStdinUnbounded ==
    /\ pc = "write"
    /\ stdin_pipe.written < request.prompt.len
    /\ IF ~child.stdin_open THEN
           /\ Finish(request, WriteError)
           /\ stdin_pipe' = [stdin_pipe EXCEPT !.open = FALSE]
           /\ calls' = [calls EXCEPT !.results = @ + 1]
       ELSE
           /\ stdin_pipe' = [stdin_pipe EXCEPT !.written = @ + 1, !.buffered = @ + 1]
           /\ UNCHANGED <<pc, cli_result, response, calls>>
    /\ UNCHANGED <<state, request, child, stdout, stderr>>

(* stdin.write_all(prompt): one block goes into the pipe when it has room; *)
(* with the pipe full the task stays suspended here; with the agent's end  *)
(* closed the write fails and the error is returned at once.  The Child is *)
(* dropped then, which closes the input channel and leaves the process be. *)
WriteStdin ==
    /\ pc = "write"
    /\ stdin_pipe.written < request.prompt.len
    /\ IF ~child.stdin_open THEN
           /\ Finish(request, WriteError)
           /\ stdin_pipe' = [stdin_pipe EXCEPT !.open = FALSE]
           /\ calls' = [calls EXCEPT !.results = @ + 1]
       ELSE
           /\ stdin_pipe.buffered < PipeCap
           /\ stdin_pipe' = [stdin_pipe EXCEPT !.written = @ + 1, !.buffered = @ + 1]
           /\ UNCHANGED <<pc, cli_result, response, calls>>
    /\ UNCHANGED <<state, request, child, stdout, stderr>>

(* CloseStdin that starts the wait with the input channel left open *)
CloseStdinKeepOpen ==
    /\ pc = "write"
    /\ stdin_pipe.written = request.prompt.len
    /\ pc' = "wait"
    /\ calls' = [calls EXCEPT !.wait = @ + 1]
    /\ UNCHANGED <<state, request, child, stdin_pipe, stdout, stderr,
                   cli_result, response>>

(* The whole prompt is written: `stdin` goes out of scope, which closes    *)
(* the input channel, and the task starts wait_with_output.                *)
CloseStdin ==
    /\ pc = "write"
    /\ stdin_pipe.written = request.prompt.len
    /\ stdin_pipe' = [stdin_pipe EXCEPT !.open = FALSE]
    /\ pc' = "wait"
    /\ calls' = [calls EXCEPT !.wait = @ + 1]
    /\ UNCHANGED <<state, request, child, stdout, stderr, cli_result, response>>

(* WaitWithOutput collecting the output of every agent in one buffer *)
WaitWithOutputShared ==
    /\ pc = "wait"
    /\ child.st = "exited"
    /\ LET output == [status |-> child.status,
                      stdout |-> Flatten(other.stdout \o stdout),
                      stderr |-> Flatten(other.stderr \o stderr)]
       IN /\ Finish(request, CheckOutput(output))
          /\ calls' = [calls EXCEPT
                         !.extract = IF output.status = 0 THEN @ + 1 ELSE @,
                         !.results = @ + 1]
    /\ UNCHANGED <<state, request, child, stdin_pipe, stdout, stderr>>

(* wait_with_output returns once the agent has exited; the rest of         *)
(* run_claude_cli and of the entry point runs without awaiting.            *)
WaitWithOutput ==
    /\ pc = "wait"
    /\ child.st = "exited"
    /\ LET output == [status |-> child.status,
                      stdout |-> Flatten(stdout),
                      stderr |-> Flatten(stderr)]
       IN /\ Finish(request, CheckOutput(output))
          /\ calls' = [calls EXCEPT
                         !.extract = IF output.status = 0 THEN @ + 1 ELSE @,
                         !.results = @ + 1]
    /\ UNCHANGED <<state, request, child, stdin_pipe, stdout, stderr>>

(* wait_with_output fails (an I/O error on the pipes or on wait) *)
WaitFails ==
    /\ pc = "wait"
    /\ Finish(request, Err("Failed to get claude CLI output",
                  Details("", <<Junk("Input/output error (os error 5)")>>)))
    /\ calls' = [calls EXCEPT !.results = @ + 1]
    /\ UNCHANGED <<state, request, child, stdin_pipe, stdout, stderr>>

-----------------------------------------------------------------------------
(* The agent process: a black box that reads its input, prints, and exits *)

AgentRead ==
    /\ child.st = "running"
    /\ child.stdin_open
    /\ stdin_pipe.buffered > 0
    /\ stdin_pipe' = [stdin_pipe EXCEPT !.buffered = @ - 1]
    /\ UNCHANGED <<state, request, pc, child, stdout, stderr, cli_result,
                   response, calls>>

(* the agent closes its standard input and goes on running *)
AgentCloseStdin ==
    /\ child.st = "running"
    /\ child.stdin_open
    /\ child' = [child EXCEPT !.stdin_open = FALSE]
    /\ UNCHANGED <<state, request, pc, stdin_pipe, stdout, stderr, cli_result,
                   response, calls>>

(* Before wait_with_output nobody reads the agent's output, so it can      *)
(* print only what the pipe holds.                                         *)
AgentWriteStdout(chunk, max) ==
    /\ child.st = "running"
    /\ Len(stdout) < max
    /\ pc = "wait" \/ Len(stdout) < PipeCap
    /\ stdout' = Append(stdout, chunk)
    /\ UNCHANGED <<state, request, pc, child, stdin_pipe, stderr, cli_result,
                   response, calls>>

AgentWriteStderr(chunk, max) ==
    /\ child.st = "running"
    /\ Len(stderr) < max
    /\ pc = "wait" \/ Len(stderr) < PipeCap
    /\ stderr' = Append(stderr, chunk)
    /\ UNCHANGED <<state, request, pc, child, stdin_pipe, stdout, cli_result,
                   response, calls>>

AgentExit(status) ==
    /\ child.st = "running"
    /\ child' = [st |-> "exited", stdin_open |-> FALSE, status |-> status]
    /\ UNCHANGED <<state, request, pc, stdin_pipe, stdout, stderr, cli_result,
                   response, calls>>

-----------------------------------------------------------------------------
(* A scripted agent: it prints some records, reads its input to the end,   *)
(* prints again and exits with status zero, doing the next thing of its    *)
(* script whenever the pipe it needs lets it.                              *)

Prints(n) == [i \in 1..n |-> "print"]

Plans ==
    {Prints(before) \o reads \o Prints(after) \o <<"exit">> :
        before \in 0..(MaxRunChunks + 1), reads \in {<<>>, <<"read">>},
        after \in 0..1}

Planned(op) == plan # <<>> /\ Head(plan) = op

PlannedPrint ==
    /\ Planned("print")
    /\ AgentWriteStdout(ResultLineX, MaxRunChunks + 2)
    /\ plan' = Tail(plan)
    /\ UNCHANGED other

PlannedRead ==
    /\ Planned("read")
    /\ AgentRead
    /\ UNCHANGED <<other, plan>>

(* the pipe is empty and the runner has closed its end: end of input *)
PlannedEndOfInput ==
    /\ Planned("read")
    /\ child.st = "running"
    /\ stdin_pipe.buffered = 0
    /\ ~stdin_pipe.open
    /\ plan' = Tail(plan)
    /\ UNCHANGED <<state, request, pc, child, stdin_pipe, stdout, stderr,
                   cli_result, response, calls, other>>

PlannedExit ==
    /\ Planned("exit")
    /\ AgentExit(0)
    /\ plan' = Tail(plan)
    /\ UNCHANGED other

-----------------------------------------------------------------------------
(* Two requests in flight.  Each handler task has its own request, Child,  *)
(* pipes and results; the variables above are those of the task that is    *)
(* followed, `other` holds the fields of the second task, and Switch       *)
(* follows the second task instead.                                        *)

Self ==
    [request |-> request, pc |-> pc, child |-> child,
     stdin_pipe |-> stdin_pipe, stdout |-> stdout, stderr |-> stderr,
     cli_result |-> cli_result, response |-> response, calls |-> calls]

(* a step of the followed task or of its agent: the second task and the   *)
(* script of the agent stay as they are                                    *)
Alone == UNCHANGED <<other, plan>>

Switch ==
    /\ other' = Self
    /\ request' = other.request
    /\ pc' = other.pc
    /\ child' = other.child
    /\ stdin_pipe' = other.stdin_pipe
    /\ stdout' = other.stdout
    /\ stderr' = other.stderr
    /\ cli_result' = other.cli_result
    /\ response' = other.response
    /\ calls' = other.calls
    /\ UNCHANGED <<state, plan>>

-----------------------------------------------------------------------------
(* Specifications *)

Init ==
    /\ state \in AppStates
    /\ request = NoRequest
    /\ pc = "idle"
    /\ child = NoChild
    /\ stdin_pipe = NoPipe
    /\ stdout = <<>>
    /\ stderr = <<>>
    /\ cli_result = NoResult
    /\ response = NoResponse
    /\ calls = NoCalls
    /\ other = NoTask
    /\ plan = <<>>

Next ==
    \/ \E ep \in Endpoints, provider \in Providers, prompt \in Prompts,
          schema \in Schemas, spawn_ok \in BOOLEAN :
          HandleRequest(ep, provider, prompt, schema, spawn_ok) /\ Alone
    \/ WriteStdin /\ Alone
    \/ CloseStdin /\ Alone
    \/ WaitWithOutput /\ Alone
    \/ WaitFails /\ Alone
    \/ AgentRead /\ Alone
    \/ AgentCloseStdin /\ Alone
    \/ \E chunk \in RunCatalogue : AgentWriteStdout(chunk, MaxRunChunks) /\ Alone
    \/ \E chunk \in ErrCatalogue : AgentWriteStderr(chunk, MaxRunChunks) /\ Alone
    \/ \E status \in {0, 1} : AgentExit(status) /\ Alone

Spec == Init /\ [][Next]_vars

(* Extraction runs: a classify request in CLI mode whose one-block prompt  *)
(* the agent has read; the runner waits while the agent prints any output  *)
(* and exits successfully.                                                 *)
InitExtract ==
    /\ state = [claude_mode |-> "cli", anthropic_api_key |-> FALSE,
                gemini_api_key |-> FALSE, openai_api_key |-> FALSE]
    /\ request = [endpoint |-> "classify", provider |-> "claude",
                  prompt |-> SomeText(1), schema |-> SomeText(1),
                  current_response |-> ""]
    /\ pc = "wait"
    /\ child = [st |-> "running", stdin_open |-> TRUE, status |-> 0]
    /\ stdin_pipe = [written |-> 1, buffered |-> 0, open |-> FALSE]
    /\ stdout = <<>>
    /\ stderr = <<>>
    /\ cli_result = NoResult
    /\ response = NoResponse
    /\ calls = [spawn |-> 1, wait |-> 1, extract |-> 0, results |-> 0]
    /\ other = NoTask
    /\ plan = <<>>

NextExtract ==
    \/ \E chunk \in Catalogue : AgentWriteStdout(chunk, MaxChunks) /\ Alone
    \/ AgentExit(0) /\ Alone
    \/ WaitWithOutput /\ Alone

SpecExtract == InitExtract /\ [][NextExtract]_vars

(* Decoding runs: any of the five entry points waits for an agent that has *)
(* printed one answer and exited successfully.                             *)
InitDecode ==
    /\ state = [claude_mode |-> "cli", anthropic_api_key |-> FALSE,
                gemini_api_key |-> FALSE, openai_api_key |-> FALSE]
    /\ \E ep \in Endpoints :
          request = [endpoint |-> ep, provider |-> "claude",
                     prompt |-> SomeText(1), schema |-> SomeText(1),
                     current_response |-> CurrentResponse(ep)]
    /\ pc = "wait"
    /\ child = [st |-> "exited", stdin_open |-> FALSE, status |-> 0]
    /\ stdin_pipe = [written |-> 1, buffered |-> 0, open |-> FALSE]
    /\ \E answer \in Answers(request.endpoint), shape \in Shapes :
          stdout = <<Printed(answer, shape)>>
    /\ stderr = <<>>
    /\ cli_result = NoResult
    /\ response = NoResponse
    /\ calls = [spawn |-> 1, wait |-> 1, extract |-> 0, results |-> 0]
    /\ other = NoTask
    /\ plan = <<>>

NextDecode == WaitWithOutput /\ Alone

SpecDecode == InitDecode /\ [][NextDecode]_vars

(* Concurrent runs: two classify requests in CLI mode, each with its own   *)
(* agent process, in any interleaving.                                     *)
InitPair ==
    /\ state = [claude_mode |-> "cli", anthropic_api_key |-> FALSE,
                gemini_api_key |-> FALSE, openai_api_key |-> FALSE]
    /\ request = NoRequest
    /\ pc = "idle"
    /\ child = NoChild
    /\ stdin_pipe = NoPipe
    /\ stdout = <<>>
    /\ stderr = <<>>
    /\ cli_result = NoResult
    /\ response = NoResponse
    /\ calls = NoCalls
    /\ other = NoTask
    /\ plan = <<>>

NextPair ==
    \/ HandleRequest("classify", "claude", SomeText(1), SomeText(1), TRUE) /\ Alone
    \/ WriteStdin /\ Alone
    \/ CloseStdin /\ Alone
    \/ WaitWithOutput /\ Alone
    \/ WaitFails /\ Alone
    \/ AgentRead /\ Alone
    \/ AgentCloseStdin /\ Alone
    \/ \E chunk \in RunCatalogue : AgentWriteStdout(chunk, MaxRunChunks) /\ Alone
    \/ \E chunk \in ErrCatalogue : AgentWriteStderr(chunk, MaxRunChunks) /\ Alone
    \/ \E status \in {0, 1} : AgentExit(status) /\ Alone
    \/ Switch

SpecPair == InitPair /\ [][NextPair]_vars

(* Runs with a scripted agent and no I/O error: a classify request in CLI  *)
(* mode with a prompt of any size.  The task is polled when it can go on   *)
(* and the agent process runs when it is not blocked on a pipe.            *)
InitLive ==
    /\ state = [claude_mode |-> "cli", anthropic_api_key |-> FALSE,
                gemini_api_key |-> FALSE, openai_api_key |-> FALSE]
    /\ request = NoRequest
    /\ pc = "idle"
    /\ child = NoChild
    /\ stdin_pipe = NoPipe
    /\ stdout = <<>>
    /\ stderr = <<>>
    /\ cli_result = NoResult
    /\ response = NoResponse
    /\ calls = NoCalls
    /\ other = NoTask
    /\ plan \in Plans

Arrive ==
    \E n \in 0..MaxPrompt :
        HandleRequest("classify", "claude", SomeText(n), SomeText(1), TRUE) /\ Alone

NextLive ==
    \/ Arrive
    \/ WriteStdin /\ Alone
    \/ CloseStdin /\ Alone
    \/ WaitWithOutput /\ Alone
    \/ PlannedPrint
    \/ PlannedRead
    \/ PlannedEndOfInput
    \/ PlannedExit

(* wait_with_output returns: the step WaitWithOutput seen from pc alone *)
WaitReturns == pc = "wait" /\ child.st = "exited" /\ pc' = "done"

SpecLive ==
    /\ InitLive
    /\ [][NextLive]_vars
    /\ WF_vars(Arrive)
    /\ WF_vars(WriteStdin /\ Alone)
    /\ WF_vars(CloseStdin /\ Alone)
    /\ WF_pc(WaitReturns)
    /\ WF_vars(PlannedPrint)
    /\ WF_vars(PlannedRead)
    /\ WF_vars(PlannedEndOfInput)
    /\ WF_vars(PlannedExit)

-----------------------------------------------------------------------------
(* Vocabulary of the properties *)

Min(S) == CHOOSE x \in S : \A y \in S : x <= y

(* run_claude_cli captured the output of an agent that exited with zero *)
CapturedZero == pc = "done" /\ child.st = "exited" /\ child.status = 0

CapturedText == from_utf8_lossy(Flatten(stdout))

(* the envelope decoding of every line of the captured text *)
Envelopes(text) ==
    LET ls == lines(text) IN
    [i \in 1..Len(ls) |-> from_str_ClaudeCliOutput(ls[i])]

(* lines that decode as an envelope whose type is "result" *)
ResultTypedLines(es) ==
    {i \in 1..Len(es) :
        es[i].ok /\ es[i].output_type.some /\ es[i].output_type.v = "result"}

(* ... and whose result object carries a non-null structured_output *)
CarriesOutput(es, i) == es[i].result.some /\ es[i].result.structured_output.some
AnswerLines(es) == {i \in ResultTypedLines(es) : CarriesOutput(es, i)}
OutputOf(es, i) == es[i].result.structured_output.v

(* the keys of the whole text when it is one JSON object *)
WholeKeys(doc) == IF doc.ok /\ doc.v.t = "obj" THEN MemberKeys(doc.v.c) ELSE {}

Markers == {"ai_detected_str", "final_response", "suggested_response_id"}

-----------------------------------------------------------------------------
C3_WholeTextFallback ==
    CapturedZero =>
        LET doc == from_str(CapturedText) IN
        ("structured_output" \in WholeKeys(doc)
            /\ AnswerLines(Envelopes(CapturedText)) = {}) =>
                cli_result = Ok(ToValue(doc.v).o["structured_output"], "whole", 0)

C3_Witness ==
    /\ CapturedZero
    /\ stdout = <<WrappedMarker>>
    /\ cli_result = Ok(VObj([y |-> VNum("2")]), "whole", 0)

(* C4: when no line matched the scan and the whole text is one JSON object *)
(* without structured_output but with a marker key, that object is         *)
(* returned with the same keys and values.                                 *)
C4_DirectShapeFallback ==
    CapturedZero =>
        LET doc == from_str(CapturedText) IN
        (/\ "structured_output" \notin WholeKeys(doc)
         /\ WholeKeys(doc) \cap Markers # {}
         /\ AnswerLines(Envelopes(CapturedText)) = {}) =>
            /\ cli_result = Ok(ToValue(doc.v), "direct", 0)
            /\ DOMAIN cli_result.value.o = WholeKeys(doc)

C4_Witness ==
    /\ CapturedZero
    /\ stdout = <<BlankLine, DirectLine>>
    /\ cli_result = Ok(VObj([final_response |-> VStr("ok"),
                             used_canned_id |-> VStr("c1")]), "direct", 0)

(* C5: when the output has none of the three shapes, run_claude_cli        *)
(* returns the extraction error and its detail holds the whole captured    *)
(* text (the output decoded with from_utf8_lossy).                         *)
C5_ExtractionFailure ==
    CapturedZero =>
        LET doc == from_str(CapturedText) IN
        (/\ "structured_output" \notin WholeKeys(doc)
         /\ WholeKeys(doc) \cap Markers = {}
         /\ AnswerLines(Envelopes(CapturedText)) = {}) =>
            /\ ~cli_result.ok
            /\ cli_result.error = "Failed to parse Claude CLI output"
            /\ cli_result.details = Details("Output: ", CapturedText)

C5_Witness ==
    /\ CapturedZero
    /\ stdout = <<ResultText, OtherLine>>
    /\ cli_result.error = "Failed to parse Claude CLI output"
    /\ cli_result.details.text = ResultText \o OtherLine

-----------------------------------------------------------------------------
(* the request selects the agent-subprocess provider *)
SelectsCli == request.provider = "claude" /\ state.claude_mode = "cli"

(* the request got to run_claude_cli *)
ReachedRunner == SelectsCli /\ request.prompt.some /\ request.schema.some

Arrived == pc # "idle"

(* C6 as stated: whenever the agent exited with a non-zero status the call *)
(* fails with the non-zero-exit error whose detail is the captured stderr  *)
(* text, and no extraction was attempted.                                  *)
C6_NonZeroExit ==
    (pc = "done" /\ child.st = "exited" /\ child.status # 0) =>
        /\ response = Failed(Err("Claude CLI execution failed",
                                 Details("", from_utf8_lossy(Flatten(stderr)))))
        /\ calls.extract = 0

(* C7: a call of a CLI entry point whose prompt or schema is absent        *)
(* returns the caller-input failure and spawns no agent process.           *)
C7_MissingInput ==
    (Arrived /\ SelectsCli /\ (~request.prompt.some \/ ~request.schema.some)) =>
        /\ pc = "done"
        /\ ~response.ok
        /\ response.error = IF ~request.prompt.some
                            THEN "Missing prompt from frontend"
                            ELSE "Missing schema from frontend"
        /\ calls.spawn = 0
        /\ child = NoChild

C7_Witness ==
    /\ pc = "done"
    /\ SelectsCli
    /\ request.endpoint = "testpage"
    /\ request.prompt = SomeText(1)
    /\ ~request.schema.some
    /\ response.error = "Missing schema from frontend"
    /\ calls.spawn = 0

(* C8 as stated: a call whose prompt or schema is present but empty ends   *)
(* in a failure and no agent process is spawned for it.                    *)
C8_EmptyInput ==
    (/\ Arrived
     /\ SelectsCli
     /\ \/ request.prompt = SomeText(0)
        \/ request.schema = SomeText(0)) =>
        /\ child.st = "none"
        /\ pc = "done"
        /\ ~response.ok

(* C9: an invocation that reaches the runner spawns once; spawn, wait and  *)
(* extraction run at most once; exactly one result is produced, and once   *)
(* it is produced (any failure included) nothing runs again.               *)
C9_NoRetry ==
    /\ [](/\ calls.spawn <= 1 /\ calls.wait <= 1
          /\ calls.extract <= 1 /\ calls.results <= 1
          /\ (pc = "done") <=> (calls.results = 1)
          /\ (Arrived /\ ReachedRunner) => calls.spawn = 1
          /\ (pc = "done" /\ ~response.ok) =>
                 /\ calls.extract = 1 <=>
                        response.error = "Failed to parse Claude CLI output"
                 /\ calls.wait = 1 <=>
                        response.error \in {"Failed to get claude CLI output",
                                            "Claude CLI execution failed",
                                            "Failed to parse Claude CLI output"})
    /\ [][pc = "done" =>
            /\ pc' = "done"
            /\ response' = response
            /\ cli_result' = cli_result
            /\ calls' = calls]_vars

C9_Witness ==
    /\ pc = "done"
    /\ response.error = "Failed to parse Claude CLI output"
    /\ calls = [spawn |-> 1, wait |-> 1, extract |-> 1, results |-> 1]

NotImplemented ==
    {"Claude HTTP API mode not yet implemented - use CLI mode",
     "Gemini backend proxy not yet implemented - use browser mode",
     "OpenAI backend proxy not yet implemented"}

(* C10 as stated: every request that does not select the agent-subprocess  *)
(* provider is rejected with a "not implemented" indication and spawns no  *)
(* process, whether or not the API key is configured.                      *)
C10_NotImplemented ==
    (Arrived /\ ~SelectsCli) =>
        /\ pc = "done"
        /\ response.error \in NotImplemented
        /\ calls.spawn = 0

(* the request gets to the stub of an unimplemented provider *)
ReachesStub ==
    \/ request.provider = "claude" /\ state.anthropic_api_key
    \/ /\ request.endpoint = "classify"
       /\ \/ request.provider = "gemini" /\ state.gemini_api_key
          \/ request.provider = "openai" /\ state.openai_api_key

(* C10, amended: every request that does not select the agent-subprocess   *)
(* provider is rejected with an error and spawns no process; the error is  *)
(* the "not implemented" indication exactly when the request gets to a     *)
(* provider stub, which needs that provider's API key.                     *)
C10_Rejected ==
    (Arrived /\ ~SelectsCli) =>
        /\ pc = "done"
        /\ ~response.ok
        /\ response.error # ""
        /\ calls.spawn = 0
        /\ child = NoChild
        /\ cli_result = NoResult
        /\ response.error \in NotImplemented <=> ReachesStub

C10_Witness ==
    /\ pc = "done"
    /\ request.endpoint = "classify"
    /\ request.provider = "gemini"
    /\ state.gemini_api_key
    /\ response.error = "Gemini backend proxy not yet implemented - use browser mode"
    /\ calls.spawn = 0

-----------------------------------------------------------------------------
(* how far a failed invocation of run_claude_cli got *)
SpawnFailed == calls.spawn = 1 /\ child.st = "none"
WriteFailed == child.st # "none" /\ calls.wait = 0
WaitStage == calls.wait = 1 /\ calls.extract = 0
ExtractFailed == calls.extract = 1

RunnerFailed == pc = "done" /\ ~response.ok /\ calls.spawn = 1

(* C11: the five failure kinds of run_claude_cli have five different error *)
(* messages and the message tells the kind: a failed spawn, a failed       *)
(* write, a failure in the wait stage (either the wait itself or a         *)
(* non-zero exit, which then was observed) and a failed extraction; the    *)
(* message of a failed spawn is never the one of a non-zero exit.          *)
C11_FailureKinds ==
    /\ RunnerFailed =>
          /\ SpawnFailed <=> response.error = "Failed to spawn claude CLI"
          /\ WriteFailed <=> response.error = "Failed to write to claude CLI"
          /\ WaitStage <=>
                response.error \in {"Failed to get claude CLI output",
                                    "Claude CLI execution failed"}
          /\ ExtractFailed <=>
                response.error = "Failed to parse Claude CLI output"
          /\ response.error = "Claude CLI execution failed" =>
                child.st = "exited" /\ child.status # 0
          /\ (child.st = "exited" /\ child.status # 0) =>
                response.error # "Failed to spawn claude CLI"
    /\ Cardinality({"Failed to spawn claude CLI",
                    "Failed to write to claude CLI",
                    "Failed to get claude CLI output",
                    "Claude CLI execution failed",
                    "Failed to parse Claude CLI output"}) = 5

C11_Witness ==
    /\ RunnerFailed
    /\ child.st = "exited"
    /\ child.status = 1
    /\ calls.wait = 1
    /\ response.error = "Claude CLI execution failed"
    /\ response.error # "Failed to spawn claude CLI"

-----------------------------------------------------------------------------
(* the entry point decoded the answer run_claude_cli extracted *)
Decoded == pc = "done" /\ cli_result.ok

(* the answer has the key with a value of the type *)
Has(answer, key, type) ==
    answer.t = "obj" /\ key \in DOMAIN answer.o /\ answer.o[key].t = type

ElementsOf(answer, key) ==
    IF Has(answer, key, "arr") THEN answer.o[key].a ELSE <<>>

WellFormedAction(item) == Has(item, "action", "str")
WellFormedString(item) == item.t = "str"

BoolFieldsOf(ep) ==
    CASE ep = "classify" -> BoolKeys \ {"can_generate"}
      [] ep = "testpage" -> {"can_generate"}
      [] OTHER -> {}

ActionFieldsOf(ep) ==
    IF ep \in {"classify", "generate"} THEN {"suggested_actions"} ELSE {}

StringListFieldsOf(ep) ==
    CASE ep = "generate" -> {"used_canned_ids"}
      [] ep = "refine" -> {"changes_made"}
      [] OTHER -> {}

(* C12: in the typed response of every decoder a boolean field is true     *)
(* only when the answer has it as the boolean true (missing or of another  *)
(* type: false); an array field holds exactly the well-formed elements of  *)
(* the answer's array in their order (suggested_actions: elements with a   *)
(* string action; used_canned_ids, changes_made: strings), and is empty    *)
(* when the field is missing or not an array.                              *)
C12_BoolsAndArrays ==
    Decoded =>
        LET answer == cli_result.value
            body == response.body
            ep == request.endpoint
        IN /\ response.ok
           /\ \A key \in BoolFieldsOf(ep) :
                 body[key] = (Has(answer, key, "bool") /\ answer.o[key].s = "true")
           /\ \A key \in ActionFieldsOf(ep) :
                 LET kept == SelectSeq(ElementsOf(answer, key), WellFormedAction)
                 IN /\ Len(body[key]) = Len(kept)
                    /\ \A i \in 1..Len(kept) :
                          body[key][i].action = kept[i].o["action"].s
           /\ \A key \in StringListFieldsOf(ep) :
                 LET kept == SelectSeq(ElementsOf(answer, key), WellFormedString)
                 IN body[key] = [i \in 1..Len(kept) |-> kept[i].s]

C12_Witness ==
    /\ Decoded
    /\ request.endpoint = "classify"
    /\ cli_result.value =
          VObj([suggested_actions |->
                  VArr(<<VObj([reason |-> VStr("dup")]),
                         VObj([action |-> VStr("needinfo")])>>)])
    /\ response.body.ai_detected_str = FALSE
    /\ response.body.suggested_actions =
          <<[action |-> "needinfo", reason |-> ""]>>

-----------------------------------------------------------------------------
(* fields of the typed responses declared String *)
StringFieldsOf(ep) ==
    CASE ep = "classify" -> {"summary"}
      [] ep = "suggest" -> {"suggested_response_id", "draft_response"}
      [] ep = "generate" -> {"response_text", "reasoning"}
      [] ep = "refine" -> {"refined_response"}
      [] OTHER -> {"html_content", "reason"}

(* fields declared Option<String> *)
OptionFieldsOf(ep) ==
    CASE ep = "classify" ->
            {"suggested_severity", "suggested_priority", "triage_reasoning",
             "suggested_canned_id", "draft_response"}
      [] ep = "suggest" -> {"reasoning"}
      [] OTHER -> {}

(* Option<String> fields that are absent also when the answer's is empty *)
FilteredFieldsOf(ep) ==
    IF ep = "classify" THEN {"suggested_canned_id", "draft_response"} ELSE {}

Misses(answer, key) == ~Has(answer, key, "str")

(* C13 as stated: in every decoder every string field that is absent from  *)
(* the answer or of the wrong type decodes to the empty string.            *)
C13_EmptyStringDefault ==
    Decoded =>
        LET answer == cli_result.value
            body == response.body
            ep == request.endpoint
        IN /\ \A key \in StringFieldsOf(ep) :
                 Misses(answer, key) => body[key] = ""
           /\ \A key \in OptionFieldsOf(ep) :
                 Misses(answer, key) => body[key] = SomeStr("")

(* C13, amended: a string field of the answer that is a string is copied;  *)
(* when it is absent or of the wrong type, a field declared String decodes *)
(* to the empty string, except refined_response, which decodes to the      *)
(* request's current_response; a field declared Option<String> decodes to  *)
(* None (and suggested_canned_id and draft_response of classify also when  *)
(* the answer's string is empty).  The reason of an action defaults to the *)
(* empty string in classify and to None in generate.                       *)
C13_StringDefaults ==
    Decoded =>
        LET answer == cli_result.value
            body == response.body
            ep == request.endpoint
        IN /\ \A key \in StringFieldsOf(ep) :
                 body[key] =
                    IF ~Misses(answer, key) THEN answer.o[key].s
                    ELSE IF key = "refined_response" THEN request.current_response
                    ELSE ""
           /\ \A key \in OptionFieldsOf(ep) :
                 body[key] =
                    IF Misses(answer, key) THEN NoneStr
                    ELSE IF key \in FilteredFieldsOf(ep) /\ answer.o[key].s = ""
                    THEN NoneStr
                    ELSE SomeStr(answer.o[key].s)
           /\ \A key \in ActionFieldsOf(ep) :
                 LET kept == SelectSeq(ElementsOf(answer, key), WellFormedAction)
                 IN \A i \in 1..Len(kept) :
                       body[key][i].reason =
                          IF ep = "classify"
                          THEN (IF Misses(kept[i], "reason") THEN ""
                                ELSE kept[i].o["reason"].s)
                          ELSE (IF Misses(kept[i], "reason") THEN NoneStr
                                ELSE SomeStr(kept[i].o["reason"].s))

C13_Witness ==
    /\ Decoded
    /\ request.endpoint = "refine"
    /\ request.current_response = "draft"
    /\ cli_result.value = VObj([refined_response |-> VNum("1")])
    /\ response.body.refined_response = "draft"

-----------------------------------------------------------------------------
(* the fields of the typed response of an entry point *)
ResponseFieldsOf(ep) ==
    CASE ep = "classify" ->
            {"ai_detected_str", "ai_detected_test_attached", "crashstack_present",
             "fuzzing_testcase", "summary", "suggested_severity",
             "suggested_priority", "suggested_actions", "triage_reasoning",
             "suggested_canned_id", "draft_response", "notes"}
      [] ep = "suggest" -> {"suggested_response_id", "draft_response", "reasoning"}
      [] ep = "generate" ->
            {"response_text", "suggested_actions", "used_canned_ids", "reasoning"}
      [] ep = "refine" -> {"refined_response", "changes_made"}
      [] OTHER -> {"can_generate", "html_content", "reason"}

(* C14: whenever run_claude_cli returned a JSON value, whatever it is (an   *)
(* object with unexpected fields, the empty object, an array, a number, a  *)
(* string, null), the entry point answers with a successful typed response *)
(* that has exactly the fields of its response type, and no error.         *)
C14_DecodingTotal ==
    Decoded =>
        /\ response.ok
        /\ response.error = ""
        /\ DOMAIN response.body = ResponseFieldsOf(request.endpoint)

C14_Witness ==
    /\ Decoded
    /\ request.endpoint = "generate"
    /\ cli_result.value = VArr(<<VStr("c1")>>)
    /\ response = Json([response_text |-> "", suggested_actions |-> <<>>,
                        used_canned_ids |-> <<>>, reasoning |-> ""])

-----------------------------------------------------------------------------
(* the task's call returned what wait_with_output collected *)
Collected(task) ==
    /\ task.pc = "done"
    /\ task.calls.wait = 1
    /\ task.cli_result.error # "Failed to get claude CLI output"

(* the result computed from the task's own process only *)
OwnResult(task) ==
    CheckOutput([status |-> task.child.status,
                 stdout |-> Flatten(task.stdout),
                 stderr |-> Flatten(task.stderr)])

(* the task waits for an agent that has not exited *)
Hung(task) ==
    task.pc = "wait" /\ task.child.st = "running" /\ task.calls.results = 0

(* C15: with two invocations in flight in any interleaving, the result of  *)
(* each is the one computed from the exit status, stdout and stderr of its *)
(* own process, and every step is a step of one invocation that leaves     *)
(* the fields of the other as they are (or only changes which one is       *)
(* followed).  An invocation whose agent does not exit stays in the wait   *)
(* while the other spawns its process and returns.                         *)
C15_Independent ==
    /\ [](\A task \in {Self, other} :
            /\ Collected(task) =>
                  /\ task.child.st = "exited"
                  /\ task.cli_result = OwnResult(task)
            /\ task.calls.spawn <= 1)
    /\ [][\/ other' = other
          \/ other' = Self /\ Self' = other]_vars

C15_Witness ==
    /\ Hung(other)
    /\ other.stdout # <<>>
    /\ pc = "done"
    /\ calls.spawn = 1
    /\ child.st = "exited"
    /\ stdout # <<>>
    /\ stdout # other.stdout
    /\ cli_result.ok
    /\ cli_result = OwnResult(Self)

-----------------------------------------------------------------------------
(* The task cannot go on by itself.  In the delivery of the prompt: none   *)
(* of the steps of the delivery can be taken.  In the wait: the agent has  *)
(* not exited (wait_with_output returns at the exit of the process).       *)
Suspended ==
    \/ pc = "write" /\ ~ENABLED (WriteStdin \/ CloseStdin)
    \/ pc = "wait" /\ child.st # "exited"

(* C16 as stated: the task is suspended only in the wait for the exit of   *)
(* the agent; delivering the prompt never suspends it.                     *)
C16_SoleSuspension == Suspended => pc = "wait"

(* C16, amended: the task is suspended exactly in two places: in the wait, *)
(* until the agent has exited, and in the delivery of the prompt, while    *)
(* the pipe is full and the agent keeps its end open without reading.  A   *)
(* result of the wait other than an I/O error comes after the exit.        *)
C16_SuspensionPoints ==
    /\ Suspended <=>
          \/ pc = "wait" /\ child.st # "exited"
          \/ /\ pc = "write"
             /\ stdin_pipe.written < request.prompt.len
             /\ stdin_pipe.buffered >= PipeCap
             /\ child.stdin_open
    /\ (/\ pc = "done"
        /\ calls.wait = 1
        /\ response.error # "Failed to get claude CLI output") =>
            child.st = "exited"

C16_Witness ==
    /\ Suspended
    /\ pc = "write"
    /\ child.st = "running"
    /\ stdin_pipe.buffered = PipeCap
    /\ stdin_pipe.written < request.prompt.len

-----------------------------------------------------------------------------
(* C17: the steps of one invocation come in the order spawn, delivery of   *)
(* the whole prompt, closing of the input channel, wait, check of the exit *)
(* status, extraction: the prompt is delivered only to a spawned process   *)
(* and before the wait; the input channel is open only during delivery;    *)
(* the wait begins in the step that closes the channel, with the whole     *)
(* prompt written; extraction runs only after the wait has seen the agent  *)
(* exit with status zero; and no step goes back.                           *)
C17_StepOrder ==
    /\ [](/\ pc = "write" =>
               calls.spawn = 1 /\ calls.wait = 0 /\ child.st # "none"
          /\ stdin_pipe.written > 0 => calls.spawn = 1
          /\ stdin_pipe.written <= request.prompt.len
          /\ stdin_pipe.open => pc = "write"
          /\ calls.wait = 1 =>
               /\ calls.spawn = 1
               /\ ~stdin_pipe.open
               /\ stdin_pipe.written = request.prompt.len
          /\ pc = "wait" => calls.wait = 1 /\ calls.extract = 0
          /\ calls.extract = 1 =>
               /\ pc = "done"
               /\ calls.wait = 1
               /\ child.st = "exited"
               /\ child.status = 0)
    /\ [][/\ calls'.wait > calls.wait =>
               /\ stdin_pipe.open /\ ~stdin_pipe'.open
               /\ stdin_pipe.written = request.prompt.len
          /\ calls'.extract > calls.extract => pc = "wait" /\ child.status = 0
          /\ stdin_pipe'.written > stdin_pipe.written => pc = "write"
          /\ pc = "wait" => pc' \in {"wait", "done"}
          /\ pc = "write" => pc' \in {"write", "wait", "done"}]_vars

C17_Witness ==
    /\ pc = "done"
    /\ cli_result.ok
    /\ request.prompt.len = MaxPrompt
    /\ stdin_pipe = [written |-> MaxPrompt, buffered |-> 0, open |-> FALSE]
    /\ calls = [spawn |-> 1, wait |-> 1, extract |-> 1, results |-> 1]

-----------------------------------------------------------------------------
(* the runner cannot deliver the rest of the prompt before the agent reads *)
RunnerWaitsForAgent ==
    /\ pc = "write"
    /\ stdin_pipe.written < request.prompt.len
    /\ stdin_pipe.buffered >= PipeCap
    /\ child.stdin_open

(* the agent cannot print before the runner reads, which it does only in   *)
(* wait_with_output                                                        *)
AgentWaitsForRunner ==
    /\ child.st = "running"
    /\ Planned("print")
    /\ pc # "wait"
    /\ Len(stdout) >= PipeCap

(* C18 as stated, the part that a finite run refutes: with an agent that   *)
(* goes on whenever no pipe blocks it and ends after finitely many reads   *)
(* and writes, the runner and the agent never wait each for the other.     *)
C18_NoMutualWait == ~(RunnerWaitsForAgent /\ AgentWaitsForRunner)

(* C18 as stated, the whole: under these assumptions every invocation      *)
(* eventually returns its one result.                                      *)
C18_Completion == <>(pc = "done" /\ calls.results = 1)

-----------------------------------------------------------------------------
(* the fields the decoder of the entry point expects in an answer *)
ExpectedFields(ep) == {FieldsOf(ep)[i] : i \in 1..Len(FieldsOf(ep))}

(* C19 as stated: for each of the five callers, when the agent exited with *)
(* zero and its output is one bare JSON object that carries the fields the *)
(* caller expects (no envelope, no structured_output), the direct-shape    *)
(* fallback returns that object as the answer and the caller decodes it.   *)
C19_CallerMarkers ==
    CapturedZero =>
        LET doc == from_str(CapturedText) IN
        (/\ ExpectedFields(request.endpoint) \subseteq WholeKeys(doc)
         /\ "structured_output" \notin WholeKeys(doc)
         /\ AnswerLines(Envelopes(CapturedText)) = {}) =>
            /\ cli_result = Ok(ToValue(doc.v), "direct", 0)
            /\ response.ok

-----------------------------------------------------------------------------
(* the call returned before the wait although the agent was spawned *)
ReturnedBeforeWait == pc = "done" /\ child.st # "none" /\ calls.wait = 0

(* C20: when the write of the prompt fails, run_claude_cli returns the     *)
(* write error in that very step: the wait and the extraction never run,   *)
(* the result carries nothing of stdout or stderr, and the step leaves the *)
(* process as it is, so that it may still be running, and go on, after the *)
(* result was returned.                                                    *)
C20_WriteFailure ==
    /\ [](/\ ReturnedBeforeWait <=>
               response.error = "Failed to write to claude CLI"
          /\ ReturnedBeforeWait =>
               /\ cli_result = Err("Failed to write to claude CLI",
                                   Details("", <<Junk("Broken pipe (os error 32)")>>))
               /\ response = Failed(cli_result)
               /\ calls = [spawn |-> 1, wait |-> 0, extract |-> 0, results |-> 1]
               /\ ~stdin_pipe.open
               /\ stdin_pipe.written < request.prompt.len)
    /\ [][(pc = "write" /\ pc' = "done") =>
             /\ ~child.stdin_open
             /\ child' = child
             /\ stdout' = stdout
             /\ stderr' = stderr
             /\ response'.error = "Failed to write to claude CLI"]_vars

C20_Witness ==
    /\ ReturnedBeforeWait
    /\ response.error = "Failed to write to claude CLI"
    /\ child.st = "running"
    /\ stdout # <<>>
    /\ stderr # <<>>
    /\ calls.wait = 0

-----------------------------------------------------------------------------
(* lines of the text that are not blank *)
NonBlankLines(ls) == {i \in 1..Len(ls) : ~IsBlankLine(ls[i])}

(* lines that are by themselves a complete JSON document *)
DocumentLines(ls) == {i \in 1..Len(ls) : from_str(ls[i]).ok}

(* newline-delimited records: two or more non-blank lines, each of them a  *)
(* complete JSON document                                                  *)
Records(ls) ==
    /\ Cardinality(NonBlankLines(ls)) >= 2
    /\ NonBlankLines(ls) \subseteq DocumentLines(ls)

(* lines that are an object with a top-level structured_output or marker *)
KeyedRecords(ls) ==
    {i \in DocumentLines(ls) :
        WholeKeys(from_str(ls[i])) \cap (Markers \cup {"structured_output"}) # {}}

(* the result came from one of the two fallbacks on the whole output *)
ByFallback == cli_result.ok /\ cli_result.via \in {"whole", "direct"}

(* C21: for every zero-exit output made of two or more non-blank lines     *)
(* that are each a complete JSON document, neither fallback yields the     *)
(* result: it is the match of the line scan when some line is an answer    *)
(* line, and the extraction failure otherwise.  Whenever a fallback does   *)
(* yield the result, the whole output is one JSON document, and a line     *)
(* that is a record with a top-level structured_output or marker key is    *)
(* that document only if every other line is blank.                        *)
C21_SingleDocument ==
    CapturedZero =>
        LET text == CapturedText
            ls == lines(text)
            answers == AnswerLines(Envelopes(text))
            doc == from_str(text)
        IN /\ Records(ls) =>
                /\ ~ByFallback
                /\ IF answers # {}
                   THEN cli_result.ok /\ cli_result.via = "scan"
                        /\ cli_result.line = Min(answers)
                   ELSE /\ ~cli_result.ok
                        /\ cli_result.error = "Failed to parse Claude CLI output"
           /\ ByFallback =>
                /\ doc.ok
                /\ ~Records(ls)
                /\ answers = {}
                /\ \A i \in KeyedRecords(ls) :
                      from_str(ls[i]).v = doc.v => NonBlankLines(ls) = {i}

C21_Witness ==
    /\ CapturedZero
    /\ stdout = <<DirectLine, WrappedMarker>>
    /\ Records(lines(CapturedText))
    /\ KeyedRecords(lines(CapturedText)) = {1, 2}
    /\ cli_result.error = "Failed to parse Claude CLI output"

=============================================================================
